---- MODULE Spec2Model ----
(***************************************************************************)
(* Model of scorer/simulacra_aesthetic_models/simulacra_compute_embeddings *)
(* .py: one run of main() (argument parsing, start method, device          *)
(* resolution, encoder load, SimulacraDataset construction, the DataLoader *)
(* loop with or without worker processes, concatenation, torch.save), and  *)
(* the SimulacraDataset class on its own.                                  *)
(***************************************************************************)
EXTENDS Integers, Sequences, FiniteSets, TLC

(* ------------------------------ bounds --------------------------------- *)
MaxImages == 4
MaxBatch == 2
MaxWorkers == 2
MaxReaderImages == 2

(* DataLoader's default prefetch_factor: batches in flight per worker.     *)
PrefetchFactor == 2

(* ------------------------------ values --------------------------------- *)
None == "None"

RECURSIVE GCD(_, _)
GCD(a, b) == IF b = 0 THEN a ELSE GCD(b, a % b)

(* A rating mean is the quotient sum/count; it is kept as a fraction in    *)
(* lowest terms so that equal quotients are equal values.                  *)
Frac(n, d) == LET g == GCD(n, d) IN <<n \div g, d \div g>>

RECURSIVE SumRatings(_)
SumRatings(rows) ==
    IF rows = {} THEN 0
    ELSE LET r == CHOOSE x \in rows : TRUE
         IN r.rat.rating + SumRatings(rows \ {r})

RECURSIVE SortedSeq(_)
SortedSeq(S) ==
    IF S = {} THEN <<>>
    ELSE LET m == CHOOSE x \in S : \A y \in S : x <= y
         IN <<m>> \o SortedSeq(S \ {m})

RECURSIVE Flatten(_)
Flatten(ss) == IF ss = <<>> THEN <<>> ELSE Head(ss) \o Flatten(Tail(ss))

Min(a, b) == IF a < b THEN a ELSE b

(* ------------------------------ the store ------------------------------ *)
(* The four relations the query of line 31 joins.  Every image of the      *)
(* store belongs to generation 1 and has idx = id - 1; rating rows carry a *)
(* row number so that equal ratings of one image are distinct rows.        *)
OwnPath(i) == <<i, "a">>
AltPath(i) == <<i, "b">>

Tables(n, rats, pths) ==
    [ generations |-> IF n = 0 THEN {} ELSE {[id |-> 1]},
      images      |-> {[id |-> i, gid |-> 1, idx |-> i - 1] : i \in 1..n},
      ratings     |-> UNION {{[rid |-> k, iid |-> i, rating |-> rats[i][k]]
                               : k \in 1..Len(rats[i])} : i \in 1..n},
      paths       |-> UNION {{[iid |-> i, path |-> p] : p \in pths[i]}
                               : i \in 1..n} ]

EmptyTables == Tables(0, <<>>, <<>>)

(* The rows of                                                             *)
(*   images JOIN generations ON images.gid=generations.id                  *)
(*          JOIN ratings ON images.id=ratings.iid                          *)
(*          JOIN paths ON images.id=paths.iid                              *)
JoinRows(t) ==
    {row \in [img : t.images, gen : t.generations, rat : t.ratings, pth : t.paths] :
        /\ row.img.gid = row.gen.id
        /\ row.rat.iid = row.img.id
        /\ row.pth.iid = row.img.id}

(* GROUP BY generations.id instead of images.id. *)
GroupKeyByGeneration(row) == row.gen.id

GroupKey(row) == row.img.id

Group(t, k) == {row \in JoinRows(t) : GroupKey(row) = k}

(* AVG(ratings.rating) over the joined rows of one group.                  *)
Avg(rows) == Frac(SumRatings(rows), Cardinality(rows))

(* The row one result record is built from: the bare columns come from one *)
(* row of the group (SQLite takes them from an arbitrary row of the group) *)
(* and the aggregate from all of them.                                     *)
ResultRow(t, row) ==
    [gid |-> row.gen.id, idx |-> row.img.idx, path |-> row.pth.path,
     rating |-> Avg(Group(t, GroupKey(row)))]

(* Every list the SELECT ... GROUP BY images.id can produce: one row per   *)
(* group, groups in ascending key order (SQLite emits groups in the order  *)
(* of its sort on the grouping key).                                       *)
RECURSIVE GroupRows(_, _)
GroupRows(t, keys) ==
    IF keys = <<>> THEN {<<>>}
    ELSE {<<ResultRow(t, row)>> \o rest :
             row \in Group(t, Head(keys)), rest \in GroupRows(t, Tail(keys))}

QueryResults(t) == GroupRows(t, SortedSeq({GroupKey(row) : row \in JoinRows(t)}))

(* ------------------------------ state ---------------------------------- *)
VARIABLES
    args,          \* the parsed command line (line 66)
    store,         \* what is at the --db location when the run starts
    present,       \* the image paths that can be opened under --images-dir
    clip_bound,    \* the module global clip is bound when main() runs
    cuda_built,    \* torch.backends.cuda.is_built()
    mps_built,     \* torch.backends.mps.is_built()
    pc,            \* the statement the main process is at
    error,         \* the uncaught exception that ended the run, or None
    exit_status,   \* the process exit status, -1 while running
    start_method,  \* the global multiprocessing start method (line 68)
    device,        \* line 69..76
    clip_model,    \* the loaded encoder (lines 80..81), <<>> before
    dbFile,        \* what is at the --db location now
    conn,          \* self.conn is open
    dataset,       \* self.ratings of SimulacraDataset
    send_idx,      \* batches handed out by the batch sampler so far
    rcvd_idx,      \* batches the loader has yielded in order so far
    index_queues,  \* per worker: the batch numbers it has been given
    wsamples,      \* per worker: the samples fetched for its current batch
    fetched,       \* the samples the main process has fetched (no workers)
    data_queue,    \* results the workers have put, in arrival order
    task_cache,    \* results that arrived ahead of rcvd_idx
    batch,         \* the loop variable of line 88, <<>> when none
    obj,           \* the dict of lines 93..97, <<>> before
    encoded,       \* the value of encode_image(...).cpu() before the append
    embeds,        \* line 86
    ratings,       \* line 86
    output,        \* the artifact at --output
    yielded,       \* history: the index lists of the batches the loop got
    encode_calls,  \* history: calls of clip_model.encode_image
    save_calls     \* history: calls of torch.save

envVars == <<args, store, present, clip_bound, cuda_built, mps_built>>
setupVars == <<start_method, device, clip_model>>
readerVars == <<dbFile, conn, dataset>>
loaderVars == <<send_idx, rcvd_idx, index_queues, wsamples, fetched, data_queue,
               task_cache>>
loopVars == <<batch, encoded, embeds, ratings, yielded, encode_calls>>
outVars == <<obj, output, save_calls>>
ctlVars == <<pc, error, exit_status>>
vars == <<envVars, setupVars, readerVars, loaderVars, loopVars, outVars, ctlVars>>

StartMethods == {"fork", "forkserver", "spawn"}
DeviceArgs == {None, "cuda"}
ClipModels == {"ViT-B/16"}

Args == [batch_size : 0..MaxBatch, num_workers : 0..MaxWorkers,
         start_method : StartMethods, device : DeviceArgs, clip_model : ClipModels]

(* Stores of the run: n images, image i rated i and i+1 and stored under   *)
(* its own path; or a location that holds no usable database.              *)
RunTables(n) == Tables(n, [i \in 1..n |-> <<i, i + 1>>], [i \in 1..n |-> {OwnPath(i)}])

BadStores == {[status |-> s, tables |-> EmptyTables] : s \in {"absent", "unopenable", "noschema"}}

RunStores == BadStores \cup {[status |-> "ok", tables |-> RunTables(n)] : n \in 0..MaxImages}

StorePaths(st) == {p.path : p \in st.tables.paths}

Fresh ==
    /\ error = None /\ exit_status = -1
    /\ start_method = None /\ device = None /\ clip_model = <<>>
    /\ dbFile = store.status /\ conn = FALSE /\ dataset = <<>>
    /\ send_idx = 0 /\ rcvd_idx = 0
    /\ index_queues = <<>> /\ wsamples = <<>> /\ fetched = <<>>
    /\ data_queue = <<>> /\ task_cache = {}
    /\ batch = <<>> /\ encoded = <<>> /\ embeds = <<>> /\ ratings = <<>>
    /\ obj = <<>> /\ output = [state |-> "absent", obj |-> <<>>]
    /\ yielded = <<>> /\ encode_calls = 0 /\ save_calls = 0

(* The process has started and main() is about to parse the command line.  *)
Init ==
    /\ args \in Args
    /\ store \in RunStores
    /\ present \in SUBSET StorePaths(store)
    /\ clip_bound \in BOOLEAN
    /\ cuda_built \in BOOLEAN
    /\ mps_built \in BOOLEAN
    /\ pc = "parse_args"
    /\ Fresh

(* An uncaught exception: nothing in the file catches anything, so the     *)
(* interpreter prints the traceback and exits with status 1.               *)
Raise(e) == /\ pc' = "done" /\ error' = e /\ exit_status' = 1

(* line 66: the command line is valid, parse_args returns the namespace.   *)
ParseArgs ==
    /\ pc = "parse_args"
    /\ pc' = "set_start_method"
    /\ UNCHANGED <<envVars, setupVars, readerVars, loaderVars, loopVars, outVars,
                   error, exit_status>>

(* line 68 *)
SetStartMethod ==
    /\ pc = "set_start_method"
    /\ start_method' = args.start_method
    /\ pc' = "device"
    /\ UNCHANGED <<envVars, device, clip_model, readerVars, loaderVars, loopVars,
                   outVars, error, exit_status>>

(* lines 69..76, as a function of --device and of what the torch build     *)
(* reports for torch.backends.cuda.is_built() and ...mps.is_built().       *)
ResolveDevice(arg, cuda, mps) ==
    LET d0 == "cpu"
    IN IF arg # None
       THEN d0                                   \* torch.device(device)
       ELSE LET d1 == IF cuda THEN "cuda" ELSE d0
            IN IF mps THEN "mps" ELSE d1

(* lines 69..78 *)
SelectDevice ==
    /\ pc = "device"
    /\ device' = ResolveDevice(args.device, cuda_built, mps_built)
    /\ pc' = "clip_load"
    /\ UNCHANGED <<envVars, start_method, clip_model, readerVars, loaderVars,
                   loopVars, outVars, error, exit_status>>

(* line 80: the file imports no name clip (lines 5..15), so run as a       *)
(* script the name is unbound and evaluating clip.load raises NameError.   *)
ClipNameError ==
    /\ pc = "clip_load"
    /\ ~clip_bound
    /\ Raise("NameError")
    /\ UNCHANGED <<envVars, setupVars, readerVars, loaderVars, loopVars, outVars>>

(* lines 80..81, main() called by an importer that has bound the module    *)
(* global clip: the encoder is loaded on the device and frozen.            *)
ClipLoad ==
    /\ pc = "clip_load"
    /\ clip_bound
    /\ clip_model' = <<[name |-> args.clip_model, device |-> device,
                        eval |-> TRUE, requires_grad |-> FALSE]>>
    /\ pc' = "dataset_connect"
    /\ UNCHANGED <<envVars, start_method, device, readerVars, loaderVars, loopVars,
                   outVars, error, exit_status>>

(* line 28: sqlite3.connect(db) opens read-write and creates the database  *)
(* file when none is there; it raises when the location cannot be opened.  *)
ConnectCreates(status) == status = "absent"

DatasetConnect ==
    /\ pc = "dataset_connect"
    /\ IF dbFile = "unopenable"
       THEN /\ Raise("StoreUnavailable")
            /\ UNCHANGED <<dbFile, conn>>
       ELSE /\ conn' = TRUE
            /\ dbFile' = IF ConnectCreates(dbFile) THEN "empty" ELSE dbFile
            /\ pc' = "dataset_query"
            /\ UNCHANGED <<error, exit_status>>
    /\ UNCHANGED <<envVars, setupVars, dataset, loaderVars, loopVars, outVars>>

(* lines 29..33: the query raises when the relations are not there, else   *)
(* every row it yields is appended to self.ratings.                        *)
DatasetQuery ==
    /\ pc = "dataset_query"
    /\ IF dbFile # "ok"
       THEN /\ Raise("SchemaError")
            /\ UNCHANGED dataset
       ELSE /\ dataset' \in QueryResults(store.tables)
            /\ pc' = "loader"
            /\ UNCHANGED <<error, exit_status>>
    /\ UNCHANGED <<envVars, setupVars, dbFile, conn, loaderVars, loopVars, outVars>>

(* ------------------------------ samples ------------------------------- *)
(* line 39..40: the file of record key opens (and decodes).                *)
CanLoad(key) == dataset[key + 1].path \in present

(* Image.open(...).convert("RGB") followed by the encoder's transform.     *)
LoadImage(path) ==
    [src |-> path, mode |-> "RGB", tf |-> clip_model[1].name, device |-> "cpu"]

(* torch.tensor(rating): the float of the query as a float32 scalar.       *)
TorchTensor(r) == [dtype |-> "float32", val |-> r]

(* lines 38..43; index is the key the sample was asked for.                *)
GetItem(key) ==
    [index  |-> key,
     image  |-> LoadImage(dataset[key + 1].path),
     rating |-> TorchTensor(dataset[key + 1].rating)]

(* The ratings stacked in the reverse order of the images. *)
CollateRatingsReversed(samples) ==
    [exc     |-> FALSE,
     indices |-> [k \in 1..Len(samples) |-> samples[k].index],
     images  |-> [k \in 1..Len(samples) |-> samples[k].image],
     ratings |-> [k \in 1..Len(samples) |-> samples[Len(samples) + 1 - k].rating]]

(* default_collate: a list of (image, rating) pairs becomes the pair of    *)
(* stacked images and stacked ratings.                                     *)
Collate(samples) ==
    [exc     |-> FALSE,
     indices |-> [k \in 1..Len(samples) |-> samples[k].index],
     images  |-> [k \in 1..Len(samples) |-> samples[k].image],
     ratings |-> [k \in 1..Len(samples) |-> samples[k].rating]]

(* What a worker puts on the data queue when fetching a batch raised.      *)
ExcData == [exc |-> TRUE, indices |-> <<>>, images |-> <<>>, ratings |-> <<>>]

(* ------------------------------ the loader ----------------------------- *)
(* line 84: DataLoader(dataset, batch_size) with the default sequential    *)
(* sampler and drop_last=False: batch b holds the indices b*bs .. , the    *)
(* last batch what is left.                                                *)
(* drop_last=True: the incomplete last batch is not produced. *)
NumBatchesDropLast(n, bs) == n \div bs

NumBatches(n, bs) == (n + bs - 1) \div bs

BatchIndices(n, bs, b) == [k \in 1..Min(bs, n - b * bs) |-> b * bs + k - 1]

NBatches == NumBatches(Len(dataset), args.batch_size)

IndicesOf(b) == BatchIndices(Len(dataset), args.batch_size, b)

Workers == 1..args.num_workers

(* The worker the b-th batch goes to: the loader cycles over its workers.  *)
WorkerOf(b) == (b % args.num_workers) + 1

(* Pickling the dataset for a worker process fails: self.conn (line 28) is *)
(* a sqlite3.Connection, which cannot be pickled.  fork copies the process *)
(* and pickles nothing.                                                    *)
PicklesDataset(method) == method \in {"spawn", "forkserver"}

(* line 84 *)
MakeLoader ==
    /\ pc = "loader"
    /\ IF args.batch_size <= 0
       THEN Raise("ValueError")
       ELSE /\ pc' = "iter" /\ UNCHANGED <<error, exit_status>>
    /\ UNCHANGED <<envVars, setupVars, readerVars, loaderVars, loopVars, outVars>>

(* line 88, iter(loader): with workers, the worker processes are started   *)
(* and PrefetchFactor batches per worker are handed out.                   *)
MakeIter ==
    /\ pc = "iter"
    /\ IF args.num_workers = 0
       THEN /\ pc' = "next"
            /\ UNCHANGED <<error, exit_status, loaderVars>>
       ELSE IF PicklesDataset(start_method)
       THEN /\ Raise("TypeError")
            /\ UNCHANGED loaderVars
       ELSE LET primed == Min(PrefetchFactor * args.num_workers, NBatches)
            IN /\ send_idx' = primed
               /\ index_queues' =
                     [w \in Workers |->
                        SortedSeq({b \in 0..primed - 1 : WorkerOf(b) = w})]
               /\ wsamples' = [w \in Workers |-> <<>>]
               /\ pc' = "next"
               /\ UNCHANGED <<error, exit_status, rcvd_idx, fetched, data_queue,
                              task_cache>>
    /\ UNCHANGED <<envVars, setupVars, readerVars, loopVars, outVars>>

(* ---- no workers: the main process fetches the batch itself ---- *)
(* line 88, next(): the sampler is exhausted, or the next batch is begun.  *)
NextSingle ==
    /\ pc = "next" /\ args.num_workers = 0
    /\ pc' = IF send_idx >= NBatches THEN "cat" ELSE "fetch"
    /\ UNCHANGED <<envVars, setupVars, readerVars, loaderVars, loopVars, outVars,
                   error, exit_status>>

(* One dataset[i] of the batch being fetched (lines 38..43).               *)
FetchSample ==
    /\ pc = "fetch"
    /\ Len(fetched) < Len(IndicesOf(send_idx))
    /\ LET key == IndicesOf(send_idx)[Len(fetched) + 1]
       IN IF CanLoad(key)
          THEN /\ fetched' = Append(fetched, GetItem(key))
               /\ UNCHANGED <<pc, error, exit_status>>
          ELSE /\ Raise("ImageLoadError")
               /\ UNCHANGED fetched
    /\ UNCHANGED <<envVars, setupVars, readerVars, send_idx, rcvd_idx, index_queues,
                   wsamples, data_queue, task_cache, loopVars, outVars>>

(* The batch is collated and becomes the loop variable (lines 88..89).     *)
FetchCollate ==
    /\ pc = "fetch"
    /\ Len(fetched) = Len(IndicesOf(send_idx))
    /\ batch' = <<Collate(fetched)>>
    /\ yielded' = Append(yielded, Collate(fetched).indices)
    /\ fetched' = <<>>
    /\ send_idx' = send_idx + 1
    /\ rcvd_idx' = rcvd_idx + 1
    /\ pc' = "encode"
    /\ UNCHANGED <<envVars, setupVars, readerVars, index_queues, wsamples, data_queue,
                   task_cache, encoded, embeds, ratings, encode_calls, outVars,
                   error, exit_status>>

(* ---- workers ---- *)
(* The worker processes live from iter(loader) until the iterator ends.    *)
WorkersAlive ==
    /\ args.num_workers > 0
    /\ pc \in {"next", "encode", "append_embeds", "append_ratings"}

(* A worker fetches the next sample of the batch at the head of its index  *)
(* queue; a failing sample makes the batch's result the exception.         *)
WorkerFetch(w) ==
    /\ WorkersAlive
    /\ index_queues[w] # <<>>
    /\ LET b == Head(index_queues[w])
       IN /\ Len(wsamples[w]) < Len(IndicesOf(b))
          /\ LET key == IndicesOf(b)[Len(wsamples[w]) + 1]
             IN IF CanLoad(key)
                THEN /\ wsamples' = [wsamples EXCEPT ![w] = Append(@, GetItem(key))]
                     /\ UNCHANGED <<index_queues, data_queue>>
                ELSE /\ data_queue' = Append(data_queue, [idx |-> b, data |-> ExcData])
                     /\ index_queues' = [index_queues EXCEPT ![w] = Tail(@)]
                     /\ wsamples' = [wsamples EXCEPT ![w] = <<>>]
    /\ UNCHANGED <<envVars, setupVars, readerVars, send_idx, rcvd_idx, fetched,
                   task_cache, loopVars, outVars, ctlVars>>

(* A worker collates its finished batch and puts it on the data queue.     *)
WorkerPut(w) ==
    /\ WorkersAlive
    /\ index_queues[w] # <<>>
    /\ LET b == Head(index_queues[w])
       IN /\ Len(wsamples[w]) = Len(IndicesOf(b))
          /\ data_queue' = Append(data_queue, [idx |-> b, data |-> Collate(wsamples[w])])
          /\ index_queues' = [index_queues EXCEPT ![w] = Tail(@)]
          /\ wsamples' = [wsamples EXCEPT ![w] = <<>>]
    /\ UNCHANGED <<envVars, setupVars, readerVars, send_idx, rcvd_idx, fetched,
                   task_cache, loopVars, outVars, ctlVars>>

(* _try_put_index: the next batch of the sampler, if any, goes to the next *)
(* worker of the cycle.                                                    *)
TryPutIndex ==
    IF send_idx < NBatches
    THEN /\ index_queues' = [index_queues EXCEPT ![WorkerOf(send_idx)] = Append(@, send_idx)]
         /\ send_idx' = send_idx + 1
    ELSE UNCHANGED <<index_queues, send_idx>>

(* Results handed to the loop in the order they arrive. *)
InOrderOfArrival(item) == TRUE

(* The result the main process may hand to the loop now: the one whose     *)
(* number is rcvd_idx.                                                     *)
InOrder(item) == item.idx = rcvd_idx

(* _process_data: count the batch, hand out another, re-raise a worker's   *)
(* exception or yield the batch to the loop (lines 88..89).                *)
ProcessData(data) ==
    /\ rcvd_idx' = rcvd_idx + 1
    /\ TryPutIndex
    /\ IF data.exc
       THEN /\ Raise("ImageLoadError")
            /\ UNCHANGED <<batch, yielded>>
       ELSE /\ batch' = <<data>>
            /\ yielded' = Append(yielded, data.indices)
            /\ pc' = "encode"
            /\ UNCHANGED <<error, exit_status>>

(* line 88, next(): every batch has been yielded; the workers are shut     *)
(* down and the loop ends.                                                 *)
MainStop ==
    /\ pc = "next" /\ args.num_workers > 0
    /\ rcvd_idx >= send_idx
    /\ pc' = "cat"
    /\ UNCHANGED <<envVars, setupVars, readerVars, loaderVars, loopVars, outVars,
                   error, exit_status>>

(* line 88, next(): the batch due was received earlier, out of order.      *)
MainFromCache ==
    /\ pc = "next" /\ args.num_workers > 0
    /\ rcvd_idx < send_idx
    /\ \E item \in task_cache :
          /\ InOrder(item)
          /\ task_cache' = task_cache \ {item}
          /\ ProcessData(item.data)
    /\ UNCHANGED <<envVars, setupVars, readerVars, wsamples, fetched, data_queue,
                   encoded, embeds, ratings, encode_calls, outVars>>

(* line 88, next(): block on the data queue; a result that is not the one  *)
(* due is kept for later.                                                  *)
MainGet ==
    /\ pc = "next" /\ args.num_workers > 0
    /\ rcvd_idx < send_idx
    /\ ~ \E item \in task_cache : InOrder(item)
    /\ data_queue # <<>>
    /\ data_queue' = Tail(data_queue)
    /\ LET item == Head(data_queue)
       IN IF InOrder(item)
          THEN /\ ProcessData(item.data)
               /\ UNCHANGED task_cache
          ELSE /\ task_cache' = task_cache \cup {item}
               /\ UNCHANGED <<rcvd_idx, send_idx, index_queues, batch, yielded, ctlVars>>
    /\ UNCHANGED <<envVars, setupVars, readerVars, wsamples, fetched,
                   encoded, embeds, ratings, encode_calls, outVars>>

(* ------------------------------ the loop body -------------------------- *)
ToDevice(t, d) == [t EXCEPT !.device = d]

(* clip_model.encode_image on one preprocessed image.                      *)
EncodeImage(img) ==
    [of |-> img.src, tf |-> img.tf, model |-> clip_model[1].name, device |-> img.device]

(* clip_model.encode_image(images_batch.to(device)).cpu(), row by row.     *)
EncodeBatch(images) ==
    [k \in 1..Len(images) |-> ToDevice(EncodeImage(ToDevice(images[k], device)), "cpu")]

(* line 90, the call: the encoder returns, or a device/runtime error       *)
(* (out of memory) propagates.                                             *)
Encode ==
    /\ pc = "encode"
    /\ encode_calls' = encode_calls + 1
    /\ \/ /\ encoded' = <<EncodeBatch(batch[1].images)>>
          /\ pc' = "append_embeds"
          /\ UNCHANGED <<error, exit_status>>
       \/ /\ Raise("EncoderError")
          /\ UNCHANGED encoded
    /\ UNCHANGED <<envVars, setupVars, readerVars, loaderVars, batch, embeds, ratings,
                   yielded, outVars>>

(* line 90, embeds.append(...) *)
AppendEmbeds ==
    /\ pc = "append_embeds"
    /\ embeds' = Append(embeds, encoded[1])
    /\ encoded' = <<>>
    /\ pc' = "append_ratings"
    /\ UNCHANGED <<envVars, setupVars, readerVars, loaderVars, batch, ratings, yielded,
                   encode_calls, outVars, error, exit_status>>

(* ratings_batch.clone(): a copy with the same values.                     *)
Clone(t) == t

(* line 91 *)
AppendRatings ==
    /\ pc = "append_ratings"
    /\ ratings' = Append(ratings, Clone(batch[1].ratings))
    /\ pc' = "next"
    /\ UNCHANGED <<envVars, setupVars, readerVars, loaderVars, batch, encoded, embeds,
                   yielded, encode_calls, outVars, error, exit_status>>

(* ------------------------------ the output ----------------------------- *)
(* Only the last batch is kept. *)
TorchCatLastOnly(list) == list[Len(list)]

(* torch.cat of a list of batches: their rows in list order.               *)
TorchCat(list) == Flatten(list)

(* lines 93..97: torch.cat raises RuntimeError on an empty list.           *)
BuildObj ==
    /\ pc = "cat"
    /\ IF embeds = <<>> \/ ratings = <<>>
       THEN /\ Raise("RuntimeError")
            /\ UNCHANGED obj
       ELSE /\ obj' = <<[clip_model |-> args.clip_model,
                         embeds |-> TorchCat(embeds),
                         ratings |-> TorchCat(ratings)]>>
            /\ pc' = "save"
            /\ UNCHANGED <<error, exit_status>>
    /\ UNCHANGED <<envVars, setupVars, readerVars, loaderVars, loopVars, output,
                   save_calls>>

(* line 99: torch.save writes the artifact and main returns (exit status   *)
(* 0), or the write fails and leaves nothing or a partial file.            *)
Save ==
    /\ pc = "save"
    /\ save_calls' = save_calls + 1
    /\ \/ /\ output' = [state |-> "written", obj |-> obj]
          /\ pc' = "done" /\ exit_status' = 0
          /\ UNCHANGED error
       \/ /\ \E st \in {"absent", "partial"} : output' = [state |-> st, obj |-> <<>>]
          /\ Raise("SerializationError")
    /\ UNCHANGED <<envVars, setupVars, readerVars, loaderVars, loopVars, obj>>

Next ==
    \/ ParseArgs \/ SetStartMethod \/ SelectDevice \/ ClipNameError \/ ClipLoad
    \/ DatasetConnect \/ DatasetQuery
    \/ MakeLoader \/ MakeIter
    \/ NextSingle \/ FetchSample \/ FetchCollate
    \/ \E w \in DOMAIN index_queues : WorkerFetch(w) \/ WorkerPut(w)
    \/ MainStop \/ MainFromCache \/ MainGet
    \/ Encode \/ AppendEmbeds \/ AppendRatings
    \/ BuildObj \/ Save

Spec == Init /\ [][Next]_vars

(* ---------------- SimulacraDataset constructed on its own -------------- *)
(* The rating rows and path rows one image of a store may have.            *)
RatingLists == {<<>>, <<2>>, <<2, 4>>, <<1, 2>>, <<3, 3>>}
PathSet(i, c) ==
    IF c = 0 THEN {} ELSE IF c = 1 THEN {OwnPath(i)} ELSE {OwnPath(i), AltPath(i)}

ReaderTables ==
    UNION {{Tables(n, rats, pths) :
               rats \in [1..n -> RatingLists],
               pths \in {[i \in 1..n |-> PathSet(i, c[i])] : c \in [1..n -> 0..2]}}
           : n \in 0..MaxReaderImages}

ReaderStores == BadStores \cup {[status |-> "ok", tables |-> t] : t \in ReaderTables}

(* A caller is about to evaluate SimulacraDataset(images_dir, db, tf) with *)
(* an encoder already loaded on the cpu.                                   *)
InitReader ==
    /\ args = [batch_size |-> 1, num_workers |-> 0, start_method |-> "fork",
               device |-> None, clip_model |-> "ViT-B/16"]
    /\ store \in ReaderStores
    /\ present = StorePaths(store)
    /\ clip_bound = TRUE /\ cuda_built = FALSE /\ mps_built = FALSE
    /\ pc = "dataset_connect"
    /\ error = None /\ exit_status = -1
    /\ start_method = "fork" /\ device = "cpu"
    /\ clip_model = <<[name |-> "ViT-B/16", device |-> "cpu", eval |-> TRUE,
                       requires_grad |-> FALSE]>>
    /\ dbFile = store.status /\ conn = FALSE /\ dataset = <<>>
    /\ send_idx = 0 /\ rcvd_idx = 0
    /\ index_queues = <<>> /\ wsamples = <<>> /\ fetched = <<>>
    /\ data_queue = <<>> /\ task_cache = {}
    /\ batch = <<>> /\ encoded = <<>> /\ embeds = <<>> /\ ratings = <<>>
    /\ obj = <<>> /\ output = [state |-> "absent", obj |-> <<>>]
    /\ yielded = <<>> /\ encode_calls = 0 /\ save_calls = 0

NextReader == DatasetConnect \/ DatasetQuery

SpecReader == InitReader /\ [][NextReader]_vars

(* ============================== claims ================================= *)
Images == store.tables.images

AllLoadable == present = StorePaths(store)

(* The encoding and the rating tensor the bundle must hold for a record.   *)
ExpectedEmbed(rec) ==
    [of |-> rec.path, tf |-> args.clip_model, model |-> args.clip_model, device |-> "cpu"]

ExpectedRating(rec) == [dtype |-> "float32", val |-> rec.rating]

Written == pc = "done" /\ output.state = "written"

(* C1: when the run completes, the bundle's embeds and ratings have        *)
(* exactly N rows and row i of each is the encoding, respectively the mean *)
(* rating, of record i -- the same bundle whatever the batch size and the  *)
(* number of workers.                                                      *)
C1_BundleRowsMatchRecords ==
    Written =>
        /\ Len(dataset) >= 1 /\ args.batch_size >= 1
        /\ output.obj[1] =
              [clip_model |-> args.clip_model,
               embeds  |-> [i \in 1..Len(dataset) |-> ExpectedEmbed(dataset[i])],
               ratings |-> [i \in 1..Len(dataset) |-> ExpectedRating(dataset[i])]]

C1_Witness ==
    /\ Written /\ Len(dataset) = 3 /\ args.batch_size = 2
    /\ Len(output.obj[1].embeds) = 3

(* C2: the artifact is written by one call of torch.save, the last step of *)
(* the run: nothing is at the output before it, every record has been      *)
(* yielded, encoded and accumulated by then, and exit status 0 implies the *)
(* artifact is written.                                                    *)
C2_WrittenOnceAtTheEnd ==
    /\ save_calls <= 1
    /\ save_calls = 1 => pc = "done"
    /\ output.state # "absent" => save_calls = 1
    /\ save_calls = 1 =>
          /\ Len(Flatten(yielded)) = Len(dataset)
          /\ encode_calls = Len(yielded)
          /\ Len(Flatten(embeds)) = Len(dataset)
          /\ Len(Flatten(ratings)) = Len(dataset)
    /\ exit_status = 0 => Written

C2_Witness == Written /\ Len(yielded) >= 2 /\ exit_status = 0

(* C3 as claimed: a run over records one of whose image files cannot be    *)
(* loaded ends with ImageLoadError, having yielded only loadable batches   *)
(* before it, and leaves no artifact.                                      *)
C3_MissingImageAbortsWithImageLoadError ==
    (/\ pc = "done" /\ store.status = "ok" /\ ~AllLoadable
     /\ args.batch_size >= 1 /\ error # "EncoderError")
    => /\ error = "ImageLoadError"
       /\ output.state = "absent"
       /\ \A j \in 1..Len(yielded) : \A k \in 1..Len(yielded[j]) :
             CanLoad(yielded[j][k])

(* C4 as claimed: a run over a store of 0 images (encoder loaded, no       *)
(* workers) ends with a zero-length bundle written or with a clean exit.   *)
C4_EmptyStoreDoesNotCrash ==
    (/\ pc = "done" /\ store.status = "ok" /\ Images = {}
     /\ args.batch_size >= 1 /\ args.num_workers = 0 /\ clip_model # <<>>)
    => \/ /\ output.state = "written"
          /\ Len(output.obj[1].embeds) = 0 /\ Len(output.obj[1].ratings) = 0
       \/ error = None /\ exit_status = 0

(* C5 as claimed: once resolved, the device is the one --device names, or  *)
(* without --device the accelerator the build supports (mps before cuda),  *)
(* cpu only when there is none; the encoder is loaded on that device.      *)
C5_DeviceIsTheOneNamed ==
    device # None =>
        /\ args.device # None => device = args.device
        /\ args.device = None =>
              device = IF mps_built THEN "mps" ELSE IF cuda_built THEN "cuda" ELSE "cpu"
        /\ clip_model # <<>> => clip_model[1].device = device

RECURSIVE SumRatingRows(_)
SumRatingRows(rows) ==
    IF rows = {} THEN 0
    ELSE LET r == CHOOSE x \in rows : TRUE
         IN r.rating + SumRatingRows(rows \ {r})

RatingRowsOf(img) == {r \in store.tables.ratings : r.iid = img.id}

PathsOf(img) == {p.path : p \in {q \in store.tables.paths : q.iid = img.id}}

ArithmeticMean(img) == Frac(SumRatingRows(RatingRowsOf(img)), Cardinality(RatingRowsOf(img)))

ReaderReturned == pc = "loader"

(* The records of the image: those carrying its idx (idx is unique per     *)
(* image in these stores).                                                 *)
RecordsOf(img) == {k \in 1..Len(dataset) : dataset[k].idx = img.idx}

(* C6 as claimed: the Reader returns exactly one record per distinct image *)
(* of the store, whose rating is the arithmetic mean of the image's rating *)
(* rows.                                                                   *)
C6_OneRecordPerImage ==
    ReaderReturned =>
        /\ Len(dataset) = Cardinality(Images)
        /\ \A img \in Images :
              /\ Cardinality(RecordsOf(img)) = 1
              /\ \A k \in RecordsOf(img) : dataset[k].rating = ArithmeticMean(img)

(* The images the inner joins keep: those with a generation row, at least  *)
(* one rating row and at least one path row.                               *)
JoinedImages ==
    {img \in Images :
        /\ \E g \in store.tables.generations : g.id = img.gid
        /\ RatingRowsOf(img) # {}
        /\ PathsOf(img) # {}}

(* C6, amended: the Reader returns exactly one record per distinct image   *)
(* that has a generation row, at least one rating row and at least one     *)
(* path row, and none for any other image; the record's rating is the      *)
(* arithmetic mean of the image's rating rows and its path one of the      *)
(* image's paths.                                                          *)
C6_OneRecordPerJoinedImage ==
    ReaderReturned =>
        /\ Len(dataset) = Cardinality(JoinedImages)
        /\ \A img \in Images \ JoinedImages : RecordsOf(img) = {}
        /\ \A img \in JoinedImages :
              /\ Cardinality(RecordsOf(img)) = 1
              /\ \A k \in RecordsOf(img) :
                    /\ dataset[k].rating = ArithmeticMean(img)
                    /\ dataset[k].path \in PathsOf(img)
                    /\ dataset[k].gid = img.gid

C6_Witness ==
    /\ ReaderReturned /\ Len(dataset) = 2
    /\ \E img \in JoinedImages :
          /\ Cardinality(PathsOf(img)) = 2
          /\ Cardinality(RatingRowsOf(img)) = 2
          /\ ArithmeticMean(img) = <<3, 2>>

(* C7: the batches the loop gets hold the indices 0, 1, 2, ... each once   *)
(* in increasing order, every batch has between 1 and batch_size samples   *)
(* and only the last has fewer than batch_size, a loop that ended has      *)
(* covered every index below N, and position k of a batch's images and of  *)
(* its ratings come from the record at index k of the batch.               *)
C7_SequentialParallelBatches ==
    LET flat == Flatten(yielded)
    IN /\ \A k \in 1..Len(flat) : flat[k] = k - 1
       /\ Len(flat) <= Len(dataset)
       /\ \A j \in 1..Len(yielded) :
             /\ Len(yielded[j]) >= 1
             /\ Len(yielded[j]) <= args.batch_size
             /\ Len(yielded[j]) < args.batch_size =>
                   j = Len(yielded) /\ Len(flat) = Len(dataset)
       /\ pc \in {"cat", "save"} \/ save_calls = 1 => Len(flat) = Len(dataset)
       /\ batch # <<>> =>
             /\ batch[1].indices = yielded[Len(yielded)]
             /\ Len(batch[1].images) = Len(batch[1].indices)
             /\ Len(batch[1].ratings) = Len(batch[1].indices)
             /\ \A k \in 1..Len(batch[1].indices) :
                   /\ batch[1].images[k].src = dataset[batch[1].indices[k] + 1].path
                   /\ batch[1].ratings[k].val = dataset[batch[1].indices[k] + 1].rating

C7_Witness ==
    /\ pc = "cat" /\ Len(yielded) = 2 /\ args.batch_size = 2
    /\ Len(yielded[1]) = 2 /\ Len(yielded[2]) = 1

(* C8 as claimed: the Reader never creates or modifies what is at the      *)
(* store location; a location that cannot be opened (one holding nothing   *)
(* included) ends it with StoreUnavailable, one without the relations with *)
(* SchemaError, and a failed Reader has no records.                        *)
C8_ReadOnlyStoreErrors ==
    /\ dbFile = store.status
    /\ pc \in {"loader", "done"} =>
          /\ store.status \in {"absent", "unopenable"} => error = "StoreUnavailable"
          /\ store.status = "noschema" => error = "SchemaError"
          /\ error # None => dataset = <<>>

BeingEncoded == rcvd_idx - 1

C9_State ==
    args.num_workers > 0 =>
        /\ \A j \in 1..Len(yielded) : yielded[j] = IndicesOf(j - 1)
        /\ \A j \in 1..Len(embeds) :
              embeds[j] = [k \in 1..Len(IndicesOf(j - 1)) |->
                              ExpectedEmbed(dataset[IndicesOf(j - 1)[k] + 1])]
        /\ \A j \in 1..Len(ratings) :
              ratings[j] = [k \in 1..Len(IndicesOf(j - 1)) |->
                              ExpectedRating(dataset[IndicesOf(j - 1)[k] + 1])]
        /\ pc \in {"encode", "append_embeds", "append_ratings"} =>
              /\ batch[1].indices = IndicesOf(BeingEncoded)
              /\ Len(batch[1].images) = Len(IndicesOf(BeingEncoded))
              /\ \A w \in DOMAIN index_queues :
                    \A q \in 1..Len(index_queues[w]) : index_queues[w][q] > BeingEncoded

C9_Step ==
    args.num_workers > 0 =>
        /\ embeds' # embeds =>
              /\ pc = "append_embeds" /\ encoded # <<>>
              /\ encode_calls = Len(embeds')
              /\ embeds' = Append(embeds, encoded[1])
        /\ ratings' # ratings =>
              /\ pc = "append_ratings"
              /\ Len(ratings') = Len(embeds)
        /\ (\E w \in DOMAIN index_queues : WorkerFetch(w) \/ WorkerPut(w)) =>
              UNCHANGED <<embeds, ratings, batch, encoded>>

(* C9: with workers, whatever the order in which they finish samples and   *)
(* batches, the loop gets batch 0, 1, 2, ... in that order and accumulates *)
(* them in that order; a batch being encoded is complete and no worker is  *)
(* still fetching it; embeds grows only by the finished encoding of the    *)
(* current batch and ratings only after it; no step of a worker changes    *)
(* the accumulation lists.                                                 *)
C9_WorkersKeepOrder == []C9_State /\ [][C9_Step]_vars

C9_Witness ==
    /\ args.num_workers = 2 /\ pc = "append_ratings"
    /\ Len(embeds) = 2
    /\ \E item \in task_cache : item.idx = 2

(* C10 as claimed: a run with valid arguments over a store of N >= 1       *)
(* records whose images all load, in which neither the encoder nor the     *)
(* write fails, ends without error, with the bundle written, exit status 0 *)
(* and one encoder call per batch.                                         *)
C10_ValidRunCompletes ==
    (/\ pc = "done" /\ store.status = "ok" /\ Images # {} /\ AllLoadable
     /\ args.batch_size >= 1
     /\ error \notin {"EncoderError", "SerializationError"})
    => /\ error = None /\ exit_status = 0
       /\ output.state = "written"
       /\ encode_calls = NumBatches(Cardinality(Images), args.batch_size)

====
